---- MODULE Spec2Model ----
(***************************************************************************)
(* A model of libs/data_utils.py, the mapping layer of the TheSportsDB    *)
(* TV-show scraper: the text parsers (parse_nfo_url, parse_media_id), the *)
(* plot sanitizer (_clean_plot) and the mappers onto the host's list item *)
(* (set_show_artwork, _add_season_info, add_main_show_info,               *)
(* add_episode_info).                                                     *)
(*                                                                         *)
(* A Python string is a sequence of one-character strings.  A Python      *)
(* value is a record [kind, val]: None, a string, an integer, a list, a   *)
(* dict (a function from the keys that are present to values).  Every     *)
(* call made on a collaborator (the video info tag, the list item, the    *)
(* fetch utility, the cache) is appended to the log `calls`.              *)
(***************************************************************************)
EXTENDS Integers, Sequences, FiniteSets, TLC

VARIABLES
    pc,         \* "ready": the call is about to be made; "done": it has ended
    fn,         \* the function of data_utils.py that is called
    arg,        \* its argument (a text, or the ShowInfo / EpisodeInfo dict)
    full_info,  \* the full_info flag of the two mappers
    resp,       \* what api_utils.load_info answered, NoFetch before any fetch
    calls,      \* the collaborator calls made so far, in order
    ret         \* Pending, Raised(exception) or Returned(value)

vars == <<pc, fn, arg, full_info, resp, calls, ret>>

----------------------------------------------------------------------------
(* Python values *)

None == [kind |-> "none", val |-> <<>>]
Str(s) == [kind |-> "str", val |-> s]
IntV(n) == [kind |-> "int", val |-> n]
Bool(b) == [kind |-> "bool", val |-> b]
List(l) == [kind |-> "list", val |-> l]
Dict(d) == [kind |-> "dict", val |-> d]
EmptyDict == Dict([k \in {} |-> None])

Pending == [kind |-> "pending", val |-> <<>>]
Raised(exc) == [kind |-> "raised", val |-> exc]
Returned(v) == [kind |-> "returned", val |-> v]
NoFetch == [kind |-> "nofetch", val |-> <<>>]

\* dict.get(key, default) and dict.get(key)
Get(d, key, default) == IF key \in DOMAIN d.val THEN d.val[key] ELSE default
GetOrNone(d, key) == Get(d, key, None)

\* the truth value of `if x:` for None and strings
Truthy(v) == v.kind = "str" /\ v.val # <<>>

\* one logged call: the operation and its arguments, keyword arguments last
Call(op, args) == [op |-> op, args |-> args]

----------------------------------------------------------------------------
(* Python string operations *)

Min(a, b) == IF a < b THEN a ELSE b

\* s[:n]
Prefix(s, n) == SubSeq(s, 1, Min(n, Len(s)))
\* s[n:]
Suffix(s, n) == SubSeq(s, n + 1, Len(s))

\* s.startswith(p)
StartsWith(s, p) == Len(s) >= Len(p) /\ SubSeq(s, 1, Len(p)) = p

\* str.lower(), on the letters the inputs are drawn from
LowerChar(c) ==
    CASE c = "T" -> "t" [] c = "M" -> "m" [] c = "D" -> "d" [] c = "B" -> "b"
      [] c = "V" -> "v" [] c = "I" -> "i" [] c = "S" -> "s" [] c = "H" -> "h"
      [] c = "E" -> "e" [] c = "P" -> "p" [] c = "O" -> "o" [] c = "R" -> "r"
      [] c = "C" -> "c" [] c = "L" -> "l" [] OTHER -> c
Lower(s) == [i \in 1..Len(s) |-> LowerChar(s[i])]

\* the ASCII digits, and one character outside ASCII that str.isdigit accepts
\* too: "sup2" stands for the single character U+00B2 (superscript two)
AsciiDigits == {"0", "1", "2", "3", "4", "5", "6", "7", "8", "9"}
UnicodeDigits == AsciiDigits \cup {"sup2"}

\* str.isdigit(): non-empty and every character a (Unicode) digit
IsDigit(s) == s # <<>> /\ \A i \in 1..Len(s) : s[i] \in UnicodeDigits

\* s.replace(old, new): the occurrences of old, left to right, not overlapping
RECURSIVE Replace(_, _, _)
Replace(s, old, new) ==
    IF s = <<>> THEN <<>>
    ELSE IF StartsWith(s, old) THEN new \o Replace(Suffix(s, Len(old)), old, new)
    ELSE <<Head(s)>> \o Replace(Tail(s), old, new)

----------------------------------------------------------------------------
(* parse_media_id *)

MediaId(type, title) == Dict(("type" :> Str(type)) @@ ("title" :> Str(title)))

IMDB_ID == <<"i", "m", "d", "b", "_", "i", "d">>
TMDB_ID == <<"t", "m", "d", "b", "_", "i", "d">>
TVDB_ID == <<"t", "v", "d", "b", "_", "i", "d">>

parse_media_id_keep_prefix(title) ==
    LET t == Lower(title) IN
    IF StartsWith(t, <<"t", "t">>) /\ IsDigit(Suffix(t, 2))
    THEN MediaId(IMDB_ID, t)
    ELSE IF StartsWith(t, <<"i", "m", "d", "b", "/", "t", "t">>) /\ IsDigit(Suffix(t, 7))
    THEN MediaId(IMDB_ID, t)
    ELSE IF StartsWith(t, <<"t", "m", "d", "b", "/">>) /\ IsDigit(Suffix(t, 5))
    THEN MediaId(TMDB_ID, Suffix(t, 5))
    ELSE IF StartsWith(t, <<"t", "v", "d", "b", "/">>) /\ IsDigit(Suffix(t, 5))
    THEN MediaId(TVDB_ID, Suffix(t, 5))
    ELSE None

parse_media_id(title) ==
    LET t == Lower(title) IN
    IF StartsWith(t, <<"t", "t">>) /\ IsDigit(Suffix(t, 2))
    THEN MediaId(IMDB_ID, t)
    ELSE IF StartsWith(t, <<"i", "m", "d", "b", "/", "t", "t">>) /\ IsDigit(Suffix(t, 7))
    THEN MediaId(IMDB_ID, Suffix(t, 5))
    ELSE IF StartsWith(t, <<"t", "m", "d", "b", "/">>) /\ IsDigit(Suffix(t, 5))
    THEN MediaId(TMDB_ID, Suffix(t, 5))
    ELSE IF StartsWith(t, <<"t", "v", "d", "b", "/">>) /\ IsDigit(Suffix(t, 5))
    THEN MediaId(TVDB_ID, Suffix(t, 5))
    ELSE None

\* the texts parse_media_id is given: a head (the four prefixes in several
\* spellings, and near misses) followed by up to MaxIdLen more characters
MaxIdLen == 2

MediaHeads ==
    { <<>>, <<"t">>, <<"t", "t">>, <<"T", "t">>, <<"T", "T">>, <<"t", "t", "/">>,
      <<"i", "m", "d", "b", "/", "t", "t">>, <<"I", "M", "D", "B", "/", "T", "T">>,
      <<"i", "m", "d", "b", "/">>, <<"i", "m", "d", "b", "/", "t">>,
      <<"t", "m", "d", "b", "/">>, <<"T", "m", "D", "b", "/">>, <<"t", "m", "d", "b">>,
      <<"t", "v", "d", "b", "/">>, <<"T", "V", "D", "B", "/">>, <<"t", "v", "d", "b", "/", "t", "t">>,
      <<"x", "y", "z">> }

IdChars == {"1", "7", "sup2", "x", "/", "T"}

SeqsUpTo(S, n) == UNION { [1..k -> S] : k \in 0..n }

MediaTitles == { h \o t : h \in MediaHeads, t \in SeqsUpTo(IdChars, MaxIdLen) }

InitCall(f, inputs) ==
    /\ pc = "ready"
    /\ fn = f
    /\ arg \in inputs
    /\ resp = NoFetch
    /\ calls = <<>>
    /\ ret = Pending

InitMedia == InitCall("parse_media_id", { Str(t) : t \in MediaTitles }) /\ full_info = FALSE

ParseMediaId ==
    /\ pc = "ready" /\ fn = "parse_media_id"
    /\ ret' = Returned(parse_media_id(arg.val))
    /\ pc' = "done"
    /\ UNCHANGED <<fn, arg, full_info, resp, calls>>

NextMedia == ParseMediaId

SpecMedia == InitMedia /\ [][NextMedia]_vars

\* The reference of claim C3, on the lower-cased text L: L is `head` followed
\* by a non-empty run of digits
DigitRuns == Seq(UnicodeDigits) \ {<<>>}
HeadThenDigits(L, head) ==
    \E k \in 1..Len(L) : SubSeq(L, 1, k) = head /\ SubSeq(L, k + 1, Len(L)) \in DigitRuns
DropChars(L, n) == [i \in 1..(Len(L) - n) |-> L[i + n]]

MediaReference(L) ==
    CASE HeadThenDigits(L, <<"t", "t">>) -> MediaId(IMDB_ID, L)
      [] HeadThenDigits(L, <<"i", "m", "d", "b", "/", "t", "t">>) -> MediaId(IMDB_ID, DropChars(L, 5))
      [] HeadThenDigits(L, <<"t", "m", "d", "b", "/">>) -> MediaId(TMDB_ID, DropChars(L, 5))
      [] HeadThenDigits(L, <<"t", "v", "d", "b", "/">>) -> MediaId(TVDB_ID, DropChars(L, 5))
      [] OTHER -> None

----------------------------------------------------------------------------
(* _clean_plot *)

\* TAG_RE = '<[^>]+>' tried at the head of s: the length of the match, which
\* runs from '<' over one or more characters other than '>' to the first '>',
\* or 0 when there is no match at the head
TagMatchLen(s) ==
    IF Len(s) >= 3 /\ s[1] = "<" /\ s[2] # ">" /\ \E j \in 3..Len(s) : s[j] = ">"
    THEN CHOOSE j \in 3..Len(s) : s[j] = ">" /\ \A k \in 3..(j - 1) : s[k] # ">"
    ELSE 0

\* TAG_RE.sub('', s, 1): the first match alone removed
RECURSIVE TagSubFirstOnly(_)
TagSubFirstOnly(s) ==
    IF s = <<>> THEN <<>>
    ELSE IF TagMatchLen(s) > 0 THEN Suffix(s, TagMatchLen(s))
    ELSE <<Head(s)>> \o TagSubFirstOnly(Tail(s))

\* TAG_RE.sub('', s): the matches, left to right and not overlapping, removed
RECURSIVE TagSub(_)
TagSub(s) ==
    IF s = <<>> THEN <<>>
    ELSE IF TagMatchLen(s) > 0 THEN TagSub(Suffix(s, TagMatchLen(s)))
    ELSE <<Head(s)>> \o TagSub(Tail(s))

CLEAN_PLOT_REPLACEMENTS ==
    << << <<"<", "b", ">">>, <<"[", "B", "]">> >>,
       << <<"<", "/", "b", ">">>, <<"[", "/", "B", "]">> >>,
       << <<"<", "i", ">">>, <<"[", "I", "]">> >>,
       << <<"<", "/", "i", ">">>, <<"[", "/", "I", "]">> >>,
       << <<"<", "/", "p", ">", "<", "p", ">">>, <<"[", "C", "R", "]">> >> >>

\* the loop over CLEAN_PLOT_REPLACEMENTS, from its i-th pair on
RECURSIVE ApplyReplacements(_, _)
ApplyReplacements(plot, i) ==
    IF i > Len(CLEAN_PLOT_REPLACEMENTS) THEN plot
    ELSE ApplyReplacements(
            Replace(plot, CLEAN_PLOT_REPLACEMENTS[i][1], CLEAN_PLOT_REPLACEMENTS[i][2]),
            i + 1)

_clean_plot(plot) == TagSub(ApplyReplacements(plot, 1))

\* the texts _clean_plot is given: up to MaxTokens pieces, each a mapped tag,
\* an unmapped tag or a loose character, and the two texts of the examples
MaxTokens == 3

PlotTokens ==
    { <<"<">>, <<">">>, <<"/">>, <<"b">>, <<"x">>,
      <<"<", "b", ">">>, <<"<", "/", "b", ">">>, <<"<", "i", ">">>, <<"<", "/", "i", ">">>,
      <<"<", "/", "p", ">", "<", "p", ">">>, <<"<", "d", "i", "v", ">">>, <<"<", "p", ">">> }

RECURSIVE Flatten(_)
Flatten(ss) == IF ss = <<>> THEN <<>> ELSE Head(ss) \o Flatten(Tail(ss))

PlotExample1 ==
    <<"<", "b", ">", "H", "i", "<", "/", "b", ">", "<", "/", "p", ">", "<", "p", ">",
      "B", "y", "e", "<", "i", ">", "!", "<", "/", "i", ">">>
PlotExample2 ==
    <<"f", "o", "o", "<", "d", "i", "v", ">", "b", "a", "r", "<", "/", "d", "i", "v", ">">>

PlotTexts ==
    { Flatten(ts) : ts \in SeqsUpTo(PlotTokens, MaxTokens) } \cup {PlotExample1, PlotExample2}

InitPlot == InitCall("_clean_plot", { Str(t) : t \in PlotTexts }) /\ full_info = FALSE

CleanPlot ==
    /\ pc = "ready" /\ fn = "_clean_plot"
    /\ ret' = Returned(Str(_clean_plot(arg.val)))
    /\ pc' = "done"
    /\ UNCHANGED <<fn, arg, full_info, resp, calls>>

\* _clean_plot called on what it returned
CleanPlotAgain ==
    /\ pc = "done" /\ fn = "_clean_plot"
    /\ arg' = ret.val
    /\ ret' = Returned(Str(_clean_plot(ret.val.val)))
    /\ pc' = "again"
    /\ UNCHANGED <<fn, full_info, resp, calls>>

NextPlot == CleanPlot \/ CleanPlotAgain

SpecPlot == InitPlot /\ [][NextPlot]_vars

\* a '<', then one or more characters other than '>', then '>'
HasTag(s) ==
    \E i \in 1..Len(s) : \E j \in (i + 2)..Len(s) :
        s[i] = "<" /\ s[j] = ">" /\ \A k \in (i + 1)..(j - 1) : s[k] # ">"

\* C10: the output of _clean_plot holds no tag-like substring; the two example
\* texts give "[B]Hi[/B][CR]Bye[I]![/I]" and "foobar"; and _clean_plot applied
\* to its own output returns that output unchanged.
C10_CleanPlot ==
    (fn = "_clean_plot" /\ pc # "ready") =>
        /\ ~HasTag(ret.val.val)
        /\ (pc = "done" /\ arg.val = PlotExample1) =>
              ret.val.val = <<"[", "B", "]", "H", "i", "[", "/", "B", "]", "[", "C", "R", "]",
                              "B", "y", "e", "[", "I", "]", "!", "[", "/", "I", "]">>
        /\ (pc = "done" /\ arg.val = PlotExample2) => ret.val.val = <<"f", "o", "o", "b", "a", "r">>
        /\ pc = "again" => ret.val = arg

\* a text whose tag only closes after a nested mapped tag has gone through
\* both calls: "<<b>x>" gives "x>" and stays "x>"
C10_Witness ==
    /\ fn = "_clean_plot" /\ pc = "again"
    /\ arg = Str(<<"x", ">">>)
    /\ ret = Returned(Str(<<"x", ">">>))

----------------------------------------------------------------------------
(* parse_nfo_url *)

\* SHOW_ID_REGEXPS is written as a parenthesised string with no trailing comma:
\* it is one string, not a tuple holding one string
SHOW_ID_REGEXPS ==
    <<"(", "t", "h", "e", "s", "p", "o", "r", "t", "s", "d", "b", ")", "\\", ".", "c", "o", "m", "/", "l", "e", "a", "g", "u", "e", "/", "(", "\\", "d", "+", ")">>

\* `for regexp in SHOW_ID_REGEXPS`: iterating a string yields its characters,
\* each a string of length one
IterItems(x) == [i \in 1..Len(x) |-> <<x[i]>>]

\* re.compile of a pattern of one character fails on a character that is
\* regular-expression syntax needing more: an opening or closing parenthesis,
\* a lone backslash, a repeat with nothing to repeat, an opening bracket
ReSyntaxError(pattern) ==
    Len(pattern) = 1 /\ pattern[1] \in {"(", ")", "\\", "+", "*", "?", "["}

NoMatch == [kind |-> "nomatch", groups |-> <<>>]
ReError == [kind |-> "error", groups |-> <<>>]
Match(groups) == [kind |-> "match", groups |-> groups]

\* re.search(pattern, text, re.I) for a pattern of one character: '.' matches
\* any character, any other character matches itself in either case; the
\* match has no groups
re_search(pattern, text) ==
    IF ReSyntaxError(pattern) THEN ReError
    ELSE IF pattern = <<".">> THEN (IF text # <<>> THEN Match(<<>>) ELSE NoMatch)
    ELSE IF \E i \in 1..Len(text) : LowerChar(text[i]) = LowerChar(pattern[1])
         THEN Match(<<>>)
         ELSE NoMatch

THESPORTSDB == <<"t", "h", "e", "s", "p", "o", "r", "t", "s", "d", "b">>

UrlParseResult(provider, show_id) ==
    Dict(("provider" :> Str(provider)) @@ ("show_id" :> Str(show_id)))

\* the loop of parse_nfo_url from its i-th item on; sid_match is still None
RECURSIVE NfoLoop(_, _, _)
NfoLoop(regexps, nfo, i) ==
    IF i > Len(regexps) THEN Returned(None)
    ELSE LET show_id_match == re_search(regexps[i], nfo) IN
         IF show_id_match.kind = "error" THEN Raised("re.error")
         ELSE IF show_id_match.kind = "nomatch" THEN NfoLoop(regexps, nfo, i + 1)
         \* show_id_match.group(1) of a match that has no group 1
         ELSE IF Len(show_id_match.groups) < 2 THEN Raised("IndexError")
         ELSE IF show_id_match.groups[1] = THESPORTSDB
         THEN Returned(UrlParseResult(show_id_match.groups[1], show_id_match.groups[2]))
         ELSE NfoLoop(regexps, nfo, i + 1)

parse_nfo_url(nfo) == NfoLoop(IterItems(SHOW_ID_REGEXPS), nfo, 1)

\* the texts parse_nfo_url is given: a lead, a host in several spellings, a
\* path, an id of up to MaxIdLen digits and a trail; and two whole texts
NfoLeads == { <<>>, <<"x", " ">>, <<"h", "t", "t", "p", ":", "/", "/", "w", "w", "w", ".">> }
NfoHosts == { THESPORTSDB, <<"T", "h", "e", "S", "p", "o", "r", "t", "s", "D", "B">>, <<"T", "H", "E", "S", "P", "O", "R", "T", "S", "D", "B">>, <<"t", "h", "e", "s", "p", "o", "r", "t", "s", "d", "x">> }
NfoPaths == { <<".", "c", "o", "m", "/", "l", "e", "a", "g", "u", "e", "/">>, <<".", "c", "o", "m", "/", "t", "e", "a", "m", "/">>, <<"/", "l", "e", "a", "g", "u", "e", "/">> }
NfoTrails == { <<>>, <<"/">> }
NfoNoMatch == <<"n", "o", " ", "m", "a", "t", "c", "h", " ", "h", "e", "r", "e">>
NfoTwoUrls == <<"t", "h", "e", "s", "p", "o", "r", "t", "s", "d", "b", ".", "c", "o", "m", "/", "l", "e", "a", "g", "u", "e", "/", "4", "3", " ", "t", "h", "e", "s", "p", "o", "r", "t", "s", "d", "b", ".", "c", "o", "m", "/", "l", "e", "a", "g", "u", "e", "/", "7">>

NfoTexts ==
    { l \o h \o p \o d \o t :
        l \in NfoLeads, h \in NfoHosts, p \in NfoPaths,
        d \in SeqsUpTo({"4", "3"}, MaxIdLen), t \in NfoTrails }
    \cup {NfoNoMatch, NfoTwoUrls}

InitNfo == InitCall("parse_nfo_url", { Str(t) : t \in NfoTexts }) /\ full_info = FALSE

ParseNfoUrl ==
    /\ pc = "ready" /\ fn = "parse_nfo_url"
    /\ ret' = parse_nfo_url(arg.val)
    /\ pc' = "done"
    /\ UNCHANGED <<fn, arg, full_info, resp, calls>>

NextNfo == ParseNfoUrl

SpecNfo == InitNfo /\ [][NextNfo]_vars

\* "thesportsdb.com/league/" followed by a digit, at position i of text
LEAGUE_URL == <<"t", "h", "e", "s", "p", "o", "r", "t", "s", "d", "b", ".", "c", "o", "m", "/", "l", "e", "a", "g", "u", "e", "/">>
LeagueAt(text, i) ==
    /\ i + Len(LEAGUE_URL) <= Len(text)
    /\ SubSeq(text, i, i + Len(LEAGUE_URL) - 1) = LEAGUE_URL
    /\ text[i + Len(LEAGUE_URL)] \in AsciiDigits

\* the digit run that starts at position i of text
RECURSIVE DigitRunAt(_, _)
DigitRunAt(text, i) ==
    IF i <= Len(text) /\ text[i] \in AsciiDigits
    THEN <<text[i]>> \o DigitRunAt(text, i + 1)
    ELSE <<>>

FirstLeague(text) == CHOOSE i \in 1..Len(text) :
    LeagueAt(text, i) /\ \A j \in 1..(i - 1) : ~LeagueAt(text, j)

LeagueId(text) == DigitRunAt(text, FirstLeague(text) + Len(LEAGUE_URL))

\* C1: parse_nfo_url never raises; it returns UrlParseResult("thesportsdb", D)
\* for a text that holds thesportsdb.com/league/D (D the digits of the first
\* occurrence) and None for a text that holds no such substring in any case.
C1_ParseNfoUrl ==
    (pc = "done" /\ fn = "parse_nfo_url") =>
        /\ ret.kind = "returned"
        /\ (\E i \in 1..Len(arg.val) : LeagueAt(arg.val, i)) =>
              ret.val = UrlParseResult(THESPORTSDB, LeagueId(arg.val))
        /\ (\A i \in 1..Len(arg.val) : ~LeagueAt(Lower(arg.val), i)) => ret.val = None

\* C2: a text that holds thesportsdb.com/league/<digits> in any mix of upper
\* and lower case is recognized: the result is a UrlParseResult, not None, and
\* its show_id is that digit run.
C2_NfoCaseInsensitive ==
    (pc = "done" /\ fn = "parse_nfo_url"
        /\ \E i \in 1..Len(arg.val) : LeagueAt(Lower(arg.val), i)) =>
        /\ ret.kind = "returned"
        /\ ret.val.kind = "dict"
        /\ ret.val.val["show_id"] = Str(LeagueId(Lower(arg.val)))

----------------------------------------------------------------------------
(* int() and str() *)

\* int(s) succeeds on an optional sign followed by one or more decimal digits
\* (the inputs hold no white space and no underscore)
Unsigned(s) == IF s # <<>> /\ s[1] \in {"+", "-"} THEN Tail(s) ELSE s
IsIntLiteral(s) ==
    Unsigned(s) # <<>> /\ \A i \in 1..Len(Unsigned(s)) : Unsigned(s)[i] \in AsciiDigits

DigitChars == <<"0", "1", "2", "3", "4", "5", "6", "7", "8", "9">>
DigitVal(c) == (CHOOSE n \in 1..10 : DigitChars[n] = c) - 1

RECURSIVE DecVal(_)
DecVal(s) ==
    IF s = <<>> THEN 0 ELSE DecVal(SubSeq(s, 1, Len(s) - 1)) * 10 + DigitVal(s[Len(s)])

IntOf(s) == IF s[1] = "-" THEN 0 - DecVal(Unsigned(s)) ELSE DecVal(Unsigned(s))

\* str(v) of None and of a string
PyStr(v) == IF v.kind = "none" THEN Str(<<"N", "o", "n", "e">>) ELSE v

\* the destination list item, handed in and handed back
LIST_ITEM == [kind |-> "list_item", val |-> <<>>]

\* what a function has done when it ends: the calls it made, in order, the
\* show_info dict as it leaves it, and how it ended
Outcome(c, si, r) == [calls |-> c, show_info |-> si, ret |-> r]

----------------------------------------------------------------------------
(* set_show_artwork *)

FANART == <<"f", "a", "n", "a", "r", "t">>
POSTER == <<"p", "o", "s", "t", "e", "r">>
BANNER == <<"b", "a", "n", "n", "e", "r">>
PREVIEW == <<"/", "p", "r", "e", "v", "i", "e", "w">>

\* image.replace('\/', '/')
NormalizeUrl(image) == Replace(image, <<"\\", "/">>, <<"/">>)

\* vtag.addAvailableArtwork(theurl, art_type=image_type, preview=previewurl)
AddAvailableArtwork(image, image_type) ==
    Call("addAvailableArtwork",
         <<Str(NormalizeUrl(image)), Str(image_type), Str(NormalizeUrl(image) \o PREVIEW)>>)

\* the list `images`, in the order of its six appends
ArtworkImages(show_info) ==
    << <<FANART, GetOrNone(show_info, "strFanart1")>>,
       <<FANART, GetOrNone(show_info, "strFanart2")>>,
       <<FANART, GetOrNone(show_info, "strFanart3")>>,
       <<FANART, GetOrNone(show_info, "strFanart1")>>,
       <<POSTER, GetOrNone(show_info, "strPoster")>>,
       <<BANNER, GetOrNone(show_info, "strBanner")>> >>

\* a fanart_list.append that leaves out a URL the list already holds
FanartAppendUnique(fanart_list, image) ==
    IF \E i \in 1..Len(fanart_list) : fanart_list[i] = Str(NormalizeUrl(image))
    THEN fanart_list
    ELSE Append(fanart_list, Str(NormalizeUrl(image)))

\* fanart_list.append(image.replace('\/', '/'))
FanartAppend(fanart_list, image) == Append(fanart_list, Str(NormalizeUrl(image)))

\* the loop over images from its i-th item on
RECURSIVE ArtworkLoop(_, _, _, _)
ArtworkLoop(images, i, fanart_list, made) ==
    IF i > Len(images) THEN [fanart_list |-> fanart_list, calls |-> made]
    ELSE LET image_type == images[i][1]
             image == images[i][2]
         IN IF image_type = FANART
            THEN ArtworkLoop(images, i + 1,
                    IF Truthy(image) THEN FanartAppend(fanart_list, image.val) ELSE fanart_list,
                    made)
            ELSE ArtworkLoop(images, i + 1, fanart_list,
                    IF Truthy(image)
                    THEN Append(made, AddAvailableArtwork(image.val, image_type))
                    ELSE made)

set_show_artwork(show_info) ==
    LET done == ArtworkLoop(ArtworkImages(show_info), 1, <<>>, <<>>) IN
    Outcome(done.calls \o
                (IF done.fanart_list # <<>>
                 THEN <<Call("setAvailableFanart", <<List(done.fanart_list)>>)>>
                 ELSE <<>>),
            show_info, Returned(LIST_ITEM))

----------------------------------------------------------------------------
(* _add_season_info *)

SEASON_URL == <<"S", "E", "A", "S", "O", "N", "_", "U", "R", "L">>

SeasonEntry(season_num, season_name) ==
    Dict(("season_num" :> IntV(season_num)) @@ ("season_name" :> Str(season_name)))

\* api_utils.load_info(settings.SEASON_URL, params={'id': show_info.get('idLeague', 0)}, ...)
LoadInfoCall(show_info) ==
    Call("load_info", <<Str(SEASON_URL), Dict("id" :> Get(show_info, "idLeague", IntV(0)))>>)

\* the loop over resp.get('seasons') from its i-th record on
RECURSIVE SeasonLoop(_, _, _, _)
SeasonLoop(records, i, seasons, made) ==
    IF i > Len(records) THEN [calls |-> made, ret |-> Returned(List(seasons))]
    ELSE LET season_name == GetOrNone(records[i], "strSeason") IN
         IF ~Truthy(season_name) THEN SeasonLoop(records, i + 1, seasons, made)
         ELSE IF ~IsIntLiteral(Prefix(season_name.val, 4))
         THEN [calls |-> made, ret |-> Raised("ValueError")]
         ELSE LET season_num == IntOf(Prefix(season_name.val, 4)) IN
              SeasonLoop(records, i + 1,
                         Append(seasons, SeasonEntry(season_num, season_name.val)),
                         Append(made, Call("addSeason", <<IntV(season_num), season_name>>)))

\* answer: what load_info returns
_add_season_info(show_info, answer) ==
    LET fetch == <<LoadInfoCall(show_info)>> IN
    IF answer = None THEN Outcome(fetch, show_info, Returned(None))
    \* `for season in None`
    ELSE IF GetOrNone(answer, "seasons").kind # "list"
    THEN Outcome(fetch, show_info, Raised("TypeError"))
    ELSE LET loop == SeasonLoop(answer.val["seasons"].val, 1, <<>>, <<>>) IN
         Outcome(fetch \o loop.calls, show_info, loop.ret)

----------------------------------------------------------------------------
(* add_main_show_info *)

TVSHOW == <<"t", "v", "s", "h", "o", "w">>
TSDB == <<"t", "s", "d", "b">>
EmptyStr == Str(<<>>)

\* lines 170-180, run whatever full_info is: the calls made and, when a
\* statement raises, the exception that ends the function there
ShowCommon(show_info) ==
    LET showname == GetOrNone(show_info, "strLeague")
        description == Get(show_info, "strDescriptionEN", EmptyStr)
        year == Get(show_info, "intFormedYear", EmptyStr)
    IN  \* _clean_plot(None): None has no replace
        IF description.kind # "str" THEN [calls |-> <<>>, ret |-> Raised("AttributeError")]
        ELSE LET plot == Str(_clean_plot(description.val))
                 named == << Call("setTitle", <<showname>>),
                             Call("setOriginalTitle", <<showname>>),
                             Call("setTvShowTitle", <<showname>>),
                             Call("setPlot", <<plot>>),
                             Call("setPlotOutline", <<plot>>),
                             Call("setMediaType", <<Str(TVSHOW)>>) >>
             IN  \* show_info['idLeague'] of a dict without the key
                 IF "idLeague" \notin DOMAIN show_info.val
                 THEN [calls |-> named, ret |-> Raised("KeyError")]
                 ELSE LET guided == Append(named,
                                Call("setEpisodeGuide", <<PyStr(show_info.val["idLeague"])>>))
                      IN  \* None[:4]
                          IF year.kind # "str"
                          THEN [calls |-> guided, ret |-> Raised("TypeError")]
                          ELSE IF ~IsIntLiteral(Prefix(year.val, 4))
                          THEN [calls |-> guided, ret |-> Raised("ValueError")]
                          ELSE [calls |-> guided \o
                                    << Call("setYear", <<IntV(IntOf(Prefix(year.val, 4)))>>),
                                       Call("setPremiered",
                                            <<Get(show_info, "dateFirstEvent", EmptyStr)>>) >>,
                                ret |-> Pending]

\* lines 182-186
ShowFullTags(show_info) ==
    << Call("setUniqueID", <<GetOrNone(show_info, "idLeague"), Str(TSDB), Bool(TRUE)>>),
       Call("setGenres", <<List(<<Get(show_info, "strSport", EmptyStr)>>)>>),
       Call("setStudios", <<List(<<Get(show_info, "strTvRights", EmptyStr)>>)>>),
       Call("setCountries", <<List(<<Get(show_info, "strCountry", EmptyStr)>>)>>) >>

\* show_info['seasons'] = value
WithSeasons(show_info, value) ==
    Dict([k \in DOMAIN show_info.val \cup {"seasons"} |->
            IF k = "seasons" THEN value ELSE show_info.val[k]])

\* lines 182-190, the full_info branch
ShowFullBranch(show_info, answer) ==
    LET art == set_show_artwork(show_info)
        fetched == _add_season_info(show_info, answer)
        before == ShowFullTags(show_info) \o art.calls \o fetched.calls
    IN IF fetched.ret.kind = "raised" THEN Outcome(before, show_info, fetched.ret)
       ELSE LET stored == WithSeasons(show_info, fetched.ret.val) IN
            Outcome(Append(before, Call("cache_show_info", <<stored>>)),
                    stored, Returned(LIST_ITEM))

\* an else branch that hands the record to set_show_artwork
ShowPosterBranchAllArtwork(show_info) == set_show_artwork(show_info)

\* lines 194-199, the branch taken when full_info is false
ShowPosterBranch(show_info) ==
    LET image == GetOrNone(show_info, "strPoster") IN
    Outcome(IF Truthy(image) THEN <<AddAvailableArtwork(image.val, POSTER)>> ELSE <<>>,
            show_info, Returned(LIST_ITEM))

add_main_show_info(show_info, full, answer) ==
    LET common == ShowCommon(show_info) IN
    IF common.ret.kind = "raised" THEN Outcome(common.calls, show_info, common.ret)
    ELSE LET branch == IF full THEN ShowFullBranch(show_info, answer)
                       ELSE ShowPosterBranch(show_info)
         IN Outcome(common.calls \o branch.calls, branch.show_info, branch.ret)

----------------------------------------------------------------------------
(* the records the mappers are given, and what the fetch may answer *)

\* a field a record does not carry
Absent == [kind |-> "absent", val |-> <<>>]

\* the dict with the keys of `fields` that are not Absent
MakeDict(fields) ==
    Dict([k \in {k \in DOMAIN fields : fields[k] # Absent} |-> fields[k]])

\* two image URLs, the first with an escaped slash: u\/a and u/b
Url1 == <<"u", "\\", "/", "a">>
Url2 == <<"u", "/", "b">>
ArtValues == {Absent, None, EmptyStr, Str(Url1), Str(Url2)}

ArtworkShowInfos ==
    { MakeDict(f) : f \in [strFanart1 : ArtValues, strFanart2 : ArtValues,
                           strFanart3 : ArtValues, strPoster : ArtValues,
                           strBanner : ArtValues] }

\* season names as the API gives them, and names int() cannot take
SeasonNames == { <<>>, <<"2", "0", "1", "9">>, <<"2", "0", "1", "9", "-", "2", "0", "2", "0">>, <<"9", "9", "9">>, <<"a", "b", "c", "d">> }
SeasonRecords ==
    { MakeDict([strSeason |-> v]) : v \in {Absent, None} \cup { Str(n) : n \in SeasonNames } }

\* load_info answers None, an empty mapping, a mapping whose season list is
\* null, or a mapping with a list of up to MaxSeasons season records
MaxSeasons == 2
FetchAnswers ==
    {None, EmptyDict, Dict("seasons" :> None)}
    \cup { Dict("seasons" :> List(l)) : l \in SeqsUpTo(SeasonRecords, MaxSeasons) }

LEAGUE_ID == <<"4", "3", "2", "8">>
SeasonShowInfos == { MakeDict([idLeague |-> v]) : v \in {Absent, Str(LEAGUE_ID)} }

ShowInfos ==
    { MakeDict(f) : f \in
        [ strLeague : {Absent, Str(<<"E", "P", "L">>)},
          strDescriptionEN : {Absent, None, Str(<<"<", "b", ">", "x">>)},
          idLeague : {Absent, Str(LEAGUE_ID)},
          intFormedYear : {Absent, None, EmptyStr, Str(<<"1", "9", "9", "2">>), Str(<<"a", "b", "c">>)},
          dateFirstEvent : {Str(<<"1", "9", "9", "2", "-", "0", "8", "-", "1", "5">>)},
          strSport : {Absent, Str(<<"S", "o", "c", "c", "e", "r">>)},
          strFanart1 : {Absent, Str(Url1)},
          strPoster : {Absent, None, EmptyStr, Str(Url1)},
          strBanner : {Absent, Str(Url2)} ] }

----------------------------------------------------------------------------
(* the calls of the mappers *)

\* the function ends: its calls are on the log, the record is as it left it
Finish(o) ==
    /\ calls' = calls \o o.calls
    /\ arg' = o.show_info
    /\ ret' = o.ret
    /\ pc' = "done"

Fetched(o) == \E i \in 1..Len(o.calls) : o.calls[i].op = "load_info"

InitArtwork == InitCall("set_show_artwork", ArtworkShowInfos) /\ full_info = FALSE

SetShowArtwork ==
    /\ pc = "ready" /\ fn = "set_show_artwork"
    /\ Finish(set_show_artwork(arg))
    /\ UNCHANGED <<fn, full_info, resp>>

NextArtwork == SetShowArtwork

SpecArtwork == InitArtwork /\ [][NextArtwork]_vars

InitSeason == InitCall("_add_season_info", SeasonShowInfos) /\ full_info = FALSE

AddSeasonInfo ==
    /\ pc = "ready" /\ fn = "_add_season_info"
    /\ \E answer \in FetchAnswers :
          /\ resp' = answer
          /\ Finish(_add_season_info(arg, answer))
    /\ UNCHANGED <<fn, full_info>>

NextSeason == AddSeasonInfo

SpecSeason == InitSeason /\ [][NextSeason]_vars

InitShow == InitCall("add_main_show_info", ShowInfos) /\ full_info \in BOOLEAN

AddMainShowInfo ==
    /\ pc = "ready" /\ fn = "add_main_show_info"
    /\ \E answer \in FetchAnswers :
          LET o == add_main_show_info(arg, full_info, answer) IN
          /\ resp' = IF Fetched(o) THEN answer ELSE NoFetch
          /\ Finish(o)
    /\ UNCHANGED <<fn, full_info>>

NextShow == AddMainShowInfo

SpecShow == InitShow /\ [][NextShow]_vars

----------------------------------------------------------------------------
(* the claims about the show mappers *)

\* the calls of one operation on the log, in order
CallsOf(log, op) == SelectSeq(log, LAMBDA c : c.op = op)

NonEmptyStr(v) == v.kind = "str" /\ Len(v.val) > 0

\* the two URLs of the inputs with "\/" written as "/"
Unescaped(url) == IF url = Url1 THEN <<"u", "/", "a">> ELSE url

\* the registration the claims expect of a poster or banner URL
Registered(url, type) ==
    Call("addAvailableArtwork", <<Str(Unescaped(url)), Str(type), Str(Unescaped(url) \o PREVIEW)>>)

IfPresent(v, type) == IF NonEmptyStr(v) THEN <<Registered(v.val, type)>> ELSE <<>>

ExpectedFanart(show_info) ==
    LET listed == SelectSeq(<< GetOrNone(show_info, "strFanart1"), GetOrNone(show_info, "strFanart2"),
                               GetOrNone(show_info, "strFanart3"), GetOrNone(show_info, "strFanart1") >>,
                            NonEmptyStr)
    IN [i \in 1..Len(listed) |-> Str(Unescaped(listed[i].val))]

\* C8: the fanart list handed to setAvailableFanart is the non-empty values of
\* strFanart1, strFanart2, strFanart3, strFanart1 in that order, normalized and
\* not deduplicated; setAvailableFanart is called once when the list is
\* non-empty and not at all otherwise; poster and banner are registered one by
\* one, only when non-empty, with preview = normalized URL + "/preview".
C8_FanartNotDeduplicated ==
    (pc = "done" /\ fn = "set_show_artwork") =>
        /\ CallsOf(calls, "setAvailableFanart") =
              (IF ExpectedFanart(arg) # <<>>
               THEN <<Call("setAvailableFanart", <<List(ExpectedFanart(arg))>>)>>
               ELSE <<>>)
        /\ CallsOf(calls, "addAvailableArtwork") =
              IfPresent(GetOrNone(arg, "strPoster"), POSTER)
              \o IfPresent(GetOrNone(arg, "strBanner"), BANNER)
        /\ Len(calls) = Len(CallsOf(calls, "setAvailableFanart"))
                        + Len(CallsOf(calls, "addAvailableArtwork"))
        /\ ret = Returned(LIST_ITEM)

\* strFanart1 and strFanart2 hold the same URL: the list has three equal entries
C8_Witness ==
    /\ pc = "done" /\ fn = "set_show_artwork"
    /\ GetOrNone(arg, "strFanart1") = Str(Url1)
    /\ GetOrNone(arg, "strFanart2") = Str(Url1)
    /\ GetOrNone(arg, "strFanart3") = None
    /\ NonEmptyStr(GetOrNone(arg, "strPoster"))
    /\ CallsOf(calls, "setAvailableFanart") =
          <<Call("setAvailableFanart",
                 <<List(<<Str(<<"u", "/", "a">>), Str(<<"u", "/", "a">>), Str(<<"u", "/", "a">>)>>)>>)>>

\* the answers by which the fetch signals failure: null, or empty of seasons
FailedAnswers == {None, EmptyDict, Dict("seasons" :> None)}

\* the season records with a non-empty name
NamedSeasons(answer) ==
    SelectSeq(answer.val["seasons"].val, LAMBDA r : NonEmptyStr(GetOrNone(r, "strSeason")))

\* C9: on a failed fetch (a null or an empty answer) _add_season_info raises
\* nothing, calls addSeason never and returns nothing; on a successful fetch
\* it calls addSeason once per season record with a non-empty strSeason, in
\* the order of the answer, with the integer of the name's first 4 characters.
C9_FailedFetchIsNoOp ==
    (pc = "done" /\ fn = "_add_season_info") =>
        /\ resp \in FailedAnswers =>
              /\ ret = Returned(None)
              /\ CallsOf(calls, "addSeason") = <<>>
        /\ (resp \notin FailedAnswers
            /\ \A i \in 1..Len(NamedSeasons(resp)) :
                  IsIntLiteral(Prefix(NamedSeasons(resp)[i].val["strSeason"].val, 4))) =>
              /\ ret.kind = "returned"
              /\ CallsOf(calls, "addSeason") =
                    [i \in 1..Len(NamedSeasons(resp)) |->
                        LET name == NamedSeasons(resp)[i].val["strSeason"] IN
                        Call("addSeason", <<IntV(IntOf(Prefix(name.val, 4))), name>>)]

\* the statements before the full_info test do not raise: the description is
\* not null, idLeague is there and intFormedYear starts with an integer
ShowWellFormed(show_info) ==
    /\ Get(show_info, "strDescriptionEN", EmptyStr).kind = "str"
    /\ "idLeague" \in DOMAIN show_info.val
    /\ Get(show_info, "intFormedYear", EmptyStr).kind = "str"
    /\ IsIntLiteral(Prefix(Get(show_info, "intFormedYear", EmptyStr).val, 4))

\* the places of an operation's calls on the log
PlacesOf(log, ops) == { i \in 1..Len(log) : log[i].op \in ops }

\* C5: with full_info and a well-formed record, whatever the fetch answers:
\* the artwork calls, then one fetch, then the seasons stored on the record,
\* then one cache write, of the record that carries the key `seasons` holding
\* the list built from the fetched records; and the list item is returned.
C5_FullInfoOrder ==
    (pc = "done" /\ fn = "add_main_show_info" /\ full_info /\ ShowWellFormed(arg)) =>
        /\ ret = Returned(LIST_ITEM)
        /\ Cardinality(PlacesOf(calls, {"load_info"})) = 1
        /\ Cardinality(PlacesOf(calls, {"cache_show_info"})) = 1
        /\ \A a \in PlacesOf(calls, {"addAvailableArtwork", "setAvailableFanart"}) :
              \A f \in PlacesOf(calls, {"load_info"}) : a < f
        /\ \A f \in PlacesOf(calls, {"load_info", "addSeason"}) :
              \A c \in PlacesOf(calls, {"cache_show_info"}) : f < c
        /\ "seasons" \in DOMAIN arg.val
        \* the augmenter's return value: nothing on a null answer, else the list
        /\ IF resp = None THEN arg.val["seasons"] = None
           ELSE /\ arg.val["seasons"].kind = "list"
                /\ arg.val["seasons"].val =
                      [i \in 1..Len(CallsOf(calls, "addSeason")) |->
                          LET c == CallsOf(calls, "addSeason")[i] IN
                          SeasonEntry(c.args[1].val, c.args[2].val)]
        /\ calls[Len(calls)] = Call("cache_show_info", <<arg>>)

\* what C4 says of the state a call without full_info ends in; `completes`
\* tells whether a non-empty poster is registered
MinimalOnly(registers) ==
    /\ resp = NoFetch
    /\ PlacesOf(calls, {"load_info", "cache_show_info", "addSeason", "setUniqueID", "setGenres",
                        "setStudios", "setCountries", "setAvailableFanart"}) = {}
    /\ "seasons" \notin DOMAIN arg.val
    /\ CallsOf(calls, "addAvailableArtwork") =
          (IF registers THEN IfPresent(GetOrNone(arg, "strPoster"), POSTER) ELSE <<>>)

MinimalCall == pc = "ready" /\ fn = "add_main_show_info" /\ ~full_info

\* C4 as stated: every call without full_info fetches nothing, writes no
\* cache, leaves the record as it was, sets no unique ID, genre, studio,
\* country or fanart, and registers the poster alone: one addAvailableArtwork
\* call when strPoster is non-empty, none otherwise.
C4_AsStated ==
    [][MinimalCall => (arg' = arg /\ MinimalOnly(TRUE)')]_vars

\* C4 as amended: the same, the poster being registered when strPoster is
\* non-empty and the statements before the branch do not raise (a null
\* description, a missing idLeague or an intFormedYear that is missing, null
\* or not an integer ends the call before the poster is reached).
C4_MinimalBranch ==
    [][MinimalCall => (arg' = arg /\ MinimalOnly(ShowWellFormed(arg))')]_vars

\* a call without full_info, on a well-formed record with a poster and a
\* banner, has registered the poster and nothing else
C4_Witness ==
    /\ pc = "done" /\ fn = "add_main_show_info" /\ ~full_info
    /\ ShowWellFormed(arg)
    /\ GetOrNone(arg, "strBanner") = Str(Url2)
    /\ CallsOf(calls, "addAvailableArtwork") = <<Registered(Url1, POSTER)>>
    /\ ret = Returned(LIST_ITEM)

----------------------------------------------------------------------------
(* add_episode_info *)

EPISODE == <<"e", "p", "i", "s", "o", "d", "e">>
THUMB == <<"t", "h", "u", "m", "b">>
EPISODE_ == <<"E", "p", "i", "s", "o", "d", "e", " ">>
DefaultSeason == Str(<<"0", "0", "0", "0">>)
DefaultEpisode == Str(<<"0">>)

\* '%s.%s.%s' % (league, date, title)
DottedTitle(league, date, title) ==
    Str(PyStr(league).val \o <<".">> \o date \o <<".">> \o PyStr(title).val)

\* lines 222-236, the full_info part, after the first setTitle
EpisodeFullTags(episode_info, title, air_date) ==
    LET raw_plot == GetOrNone(episode_info, "strDescriptionEN")
        rawurl == Get(episode_info, "strThumb", EmptyStr)
    IN <<Call("setTitle", <<title>>)>>
       \o (IF Truthy(raw_plot)
           THEN << Call("setPlot", <<Str(_clean_plot(raw_plot.val))>>),
                   Call("setPlotOutline", <<Str(_clean_plot(raw_plot.val))>>) >>
           ELSE <<>>)
       \o (IF Truthy(air_date) THEN <<Call("setPremiered", <<air_date>>)>> ELSE <<>>)
       \o (IF Truthy(rawurl) THEN <<AddAvailableArtwork(rawurl.val, THUMB)>> ELSE <<>>)

add_episode_info(episode_info, full) ==
    LET season_field == Get(episode_info, "strSeason", DefaultSeason)
        episode == Get(episode_info, "strEpisode", DefaultEpisode)
        air_date == GetOrNone(episode_info, "dateEvent")
    IN  \* None[:4]
        IF season_field.kind # "str" THEN Outcome(<<>>, episode_info, Raised("TypeError"))
        \* 'Episode ' + None, evaluated whether or not strEvent is there
        ELSE IF episode.kind # "str" THEN Outcome(<<>>, episode_info, Raised("TypeError"))
        ELSE LET season == Prefix(season_field.val, 4)
                 base == Get(episode_info, "strEvent", Str(EPISODE_ \o episode.val))
             IN IF ~IsIntLiteral(season) THEN Outcome(<<>>, episode_info, Raised("ValueError"))
                ELSE IF ~IsIntLiteral(episode.val)
                THEN Outcome(<<Call("setSeason", <<IntV(IntOf(season))>>)>>,
                             episode_info, Raised("ValueError"))
                ELSE LET title == IF Truthy(air_date) /\ ~full
                                  THEN DottedTitle(Get(episode_info, "strLeague", EmptyStr),
                                                   Replace(air_date.val, <<"-">>, <<>>), base)
                                  ELSE base
                     IN Outcome(
                          << Call("setSeason", <<IntV(IntOf(season))>>),
                             Call("setEpisode", <<IntV(IntOf(episode.val))>>),
                             Call("setMediaType", <<Str(EPISODE)>>) >>
                          \o (IF Truthy(air_date)
                              THEN <<Call("setFirstAired", <<air_date>>)>> ELSE <<>>)
                          \o <<Call("setTitle", <<title>>)>>
                          \o (IF full THEN EpisodeFullTags(episode_info, title, air_date)
                              ELSE <<>>),
                          episode_info, Returned(LIST_ITEM))

EVENT == <<"F", "i", "n", "a", "l">>
AIR_DATE == <<"2", "0", "2", "0", "-", "0", "1", "-", "0", "5">>
LEAGUE == <<"E", "P", "L">>

EpisodeInfos ==
    { MakeDict(f) : f \in
        [ strSeason : {Absent, None, EmptyStr, Str(<<"2", "0", "1", "9", "-", "2", "0", "2", "0">>), Str(<<"a", "b", "c", "d">>)},
          strEpisode : {Absent, None, Str(<<"5">>), Str(<<"x">>)},
          strEvent : {Absent, None, Str(EVENT)},
          dateEvent : {Absent, None, EmptyStr, Str(AIR_DATE)},
          strLeague : {Absent, None, Str(LEAGUE)},
          strDescriptionEN : {Absent, None, Str(<<"<", "b", ">", "x">>)},
          strThumb : {Absent, EmptyStr, Str(Url1)} ] }

InitEpisode == InitCall("add_episode_info", EpisodeInfos) /\ full_info \in BOOLEAN

AddEpisodeInfo ==
    /\ pc = "ready" /\ fn = "add_episode_info"
    /\ Finish(add_episode_info(arg, full_info))
    /\ UNCHANGED <<fn, full_info, resp>>

NextEpisode == AddEpisodeInfo

SpecEpisode == InitEpisode /\ [][NextEpisode]_vars

\* C6: add_episode_info has no hard errors: whatever fields are absent, null,
\* empty or not numeric, and whatever full_info is, the call returns the list
\* item with the season number, the episode number, the media type "episode"
\* and a title set.
C6_EpisodeNeverRaises ==
    (pc = "done" /\ fn = "add_episode_info") =>
        /\ ret = Returned(LIST_ITEM)
        /\ Len(CallsOf(calls, "setSeason")) = 1
        /\ Len(CallsOf(calls, "setEpisode")) = 1
        /\ CallsOf(calls, "setMediaType") = <<Call("setMediaType", <<Str(EPISODE)>>)>>
        /\ CallsOf(calls, "setTitle") # <<>>

\* the title C7 expects before any rewrite: strEvent, or "Episode " and the
\* episode number (0 when strEpisode is absent) when strEvent is absent
BaseTitle(episode_info) ==
    IF "strEvent" \in DOMAIN episode_info.val THEN episode_info.val["strEvent"]
    ELSE Str(EPISODE_ \o PyStr(Get(episode_info, "strEpisode", DefaultEpisode)).val)

\* the air date of the inputs with its dashes removed
AIR_DATE_STRIPPED == <<"2", "0", "2", "0", "0", "1", "0", "5">>

\* C7: the last title set is the base title when full_info is true or no air
\* date is present, and "{strLeague}.{air date without '-'}.{base title}" when
\* full_info is false and dateEvent is non-empty; under full_info the title is
\* set twice with the same value; setFirstAired is called iff dateEvent is
\* non-empty, setPremiered iff full_info is true and dateEvent is non-empty.
C7_EpisodeTitle ==
    (pc = "done" /\ fn = "add_episode_info") =>
        LET titles == CallsOf(calls, "setTitle")
            dated == NonEmptyStr(GetOrNone(arg, "dateEvent"))
        IN /\ titles # <<>>
           /\ titles[Len(titles)].args[1] =
                 (IF ~full_info /\ dated
                  THEN Str(PyStr(Get(arg, "strLeague", EmptyStr)).val \o <<".">>
                           \o AIR_DATE_STRIPPED \o <<".">> \o PyStr(BaseTitle(arg)).val)
                  ELSE BaseTitle(arg))
           /\ full_info => Len(titles) = 2 /\ titles[1] = titles[2]
           /\ (CallsOf(calls, "setFirstAired") # <<>>) <=> dated
           /\ (CallsOf(calls, "setPremiered") # <<>>) <=> (full_info /\ dated)

====
